---- MODULE Spec2Model ----
(***************************************************************************)
(* Booking / cancellation lifecycle of the taxi booking server             *)
(* (src/server/server.js, lines 1-268).                                    *)
(*                                                                         *)
(* Node runs a handler from the arrival of the request to its `await`      *)
(* without interruption: that is one action.  The two sendMail promises    *)
(* of a request settle independently, in any order, interleaved with the   *)
(* other requests.  When a settlement settles the awaited Promise.all, the *)
(* rest of the handler runs as a promise reaction (a microtask) before the *)
(* event loop takes up any other event, so the settlement and the rest of  *)
(* the handler are one action.                                             *)
(***************************************************************************)
EXTENDS Integers, Sequences, FiniteSets

\* ------------------------------------------------------------------ bounds
\* number of HTTP requests the server receives in one run
MaxReqs == 3
\* number of cancellation tokens crypto.randomBytes hands out in one run
MaxTokens == 2

Reqs == 1..MaxReqs
Tokens == 1..MaxTokens

\* ------------------------------------------------------------- JS helpers
\* `undefined` as the value of an absent property or query parameter
Undefined == "undefined"

\* req.query.token of a request without a token parameter
NoToken == 0

\* a token value that generateCancellationToken never returns
StrayToken == -1

\* decimal digit -> character
DigitChar(d) == <<"0", "1", "2", "3", "4", "5", "6", "7", "8", "9">>[d + 1]

\* Number.prototype.toString() of a natural number, as a sequence of characters
RECURSIVE NumToString(_)
NumToString(n) == IF n < 10 THEN <<DigitChar(n)>>
                  ELSE NumToString(n \div 10) \o <<DigitChar(n % 10)>>

\* String.prototype.slice(-k): the last k characters (the whole string if shorter)
SliceLast(s, k) == IF Len(s) <= k THEN s ELSE SubSeq(s, Len(s) - k + 1, Len(s))

\* a padStart that pads nothing
PadStartNothing(s, k, c) == s

\* String.prototype.padStart(k, c) for a one-character pad string
RECURSIVE PadStart(_, _, _)
PadStart(s, k, c) == IF Len(s) >= k THEN s ELSE PadStart(<<c>> \o s, k, c)

\* obj.key, `undefined` when the property is absent
Get(obj, key) == IF key \in DOMAIN obj THEN obj[key] ELSE Undefined

\* { ...a, ...b }: the properties of b override those of a
Spread(a, b) == [k \in (DOMAIN a) \cup (DOMAIN b) |-> IF k \in DOMAIN b THEN b[k] ELSE a[k]]

\* ----------------------------------------------------------------- inputs
\* the Date.now() readings that occur, as their decimal string (13 digits today)
ClockVals == { <<"1","7","0","0","0","0","0","0","0","0","0","4","2">> }

\* values of Math.floor(Math.random() * 1000) that are drawn
RandVals == {7}

\* a booking number a client puts into its own request body
ClientNumber == <<"X", "1">>

\* req.body of a booking request; NoBody: the request carried no JSON body
NoBody == [nobody |-> TRUE]
Bodies == { [type |-> "Geplante Fahrt", dateTime |-> "2025-03-01T10:00:00Z",
             name |-> "Ada", email |-> "ada@example.org"],
            [type |-> "Sofortfahrt", dateTime |-> "As soon as possible",
             name |-> "Bob", email |-> "bob@example.org",
             bookingNumber |-> ClientNumber] }

\* -------------------------------------------------------------- the state
VARIABLES
    activeBookings, \* the Map: token -> stored booking record
    issued,         \* how many tokens generateCancellationToken has returned
    kind,           \* per request: "none" (not yet received), "health", "book", "cancel"
    pc,             \* per request: "idle", "awaiting" (at await Promise.all), "done"
    token,          \* per request: cancellationToken (book) or req.query.token (cancel)
    bookingNumber,  \* per booking request: the const bookingNumber
    booking,        \* per cancellation request: the const booking read from the Map
    custSend,       \* per request: the sendMail promise of the customer message
    adminSend,      \* per request: the sendMail promise of the admin message
    res             \* per request: the responses written to res, in order

vars == <<activeBookings, issued, kind, pc, token, bookingNumber, booking,
          custSend, adminSend, res>>

NoNumber == <<>>
NoRecord == [none |-> TRUE]
\* no sendMail call was made
NoSend == [state |-> "none"]

\* activeBookings.has(t)
Has(t) == t \in DOMAIN activeBookings

\* The tokens a client can put into a cancellation link.  A token is 32 random
\* bytes and leaves the server only in the cancellationUrl of the customer
\* message, so a client holds the token of a booking once that message was
\* delivered; any other value it sends matches no booking, past or future.
Disclosed ==
    {token[q] : q \in {b \in Reqs : kind[b] = "book" /\ custSend[b].state = "ok"}}

QueryTokens == Disclosed \cup {NoToken, StrayToken}

Init ==
    /\ activeBookings = [t \in {} |-> NoRecord]
    /\ issued = 0
    /\ kind = [r \in Reqs |-> "none"]
    /\ pc = [r \in Reqs |-> "idle"]
    /\ token = [r \in Reqs |-> NoToken]
    /\ bookingNumber = [r \in Reqs |-> NoNumber]
    /\ booking = [r \in Reqs |-> NoRecord]
    /\ custSend = [r \in Reqs |-> NoSend]
    /\ adminSend = [r \in Reqs |-> NoSend]
    /\ res = [r \in Reqs |-> <<>>]

\* requests are received one after the other: slot r is the r-th request
Arrives(r) == /\ kind[r] = "none"
              /\ \A q \in Reqs : q < r => kind[q] # "none"

\* --------------------------------------------------- identifier generator
\* generateBookingNumber(), for the clock reading now and the random draw rnd
GenerateBookingNumber(now, rnd) ==
    LET prefix == <<"T", "B">>
        timestamp == SliceLast(now, 6)
        random == PadStart(NumToString(rnd), 3, "0")
    IN  prefix \o timestamp \o random

\* generateCancellationToken(): 32 random bytes; the n-th call returns a
\* value no earlier call returned, here the number n
GenerateCancellationToken == issued + 1

\* ------------------------------------------------------------- rendering
\* new Date(dt).toLocaleString('en-US', {dateStyle: 'full', timeStyle: 'short'})
ToLocaleString(dt) ==
    IF dt = "2025-03-01T10:00:00Z" THEN "Saturday, March 1, 2025 at 10:00 AM"
    ELSE "Invalid Date"

\* a formattedDateTime that formats every scheduled ride, the sentinel included
FormattedDateTimeIgnoresSentinel(bookingData) ==
    IF Get(bookingData, "type") = "Geplante Fahrt"
    THEN ToLocaleString(Get(bookingData, "dateTime"))
    ELSE "Sofort"

\* a formattedDateTime that shows the dateTime of a scheduled ride as received
FormattedDateTimeRaw(bookingData) ==
    IF Get(bookingData, "type") = "Geplante Fahrt"
       /\ Get(bookingData, "dateTime") # "As soon as possible"
    THEN Get(bookingData, "dateTime")
    ELSE "Sofort"

\* const formattedDateTime of the booking handler
FormattedDateTime(bookingData) ==
    IF Get(bookingData, "type") = "Geplante Fahrt"
       /\ Get(bookingData, "dateTime") # "As soon as possible"
    THEN ToLocaleString(Get(bookingData, "dateTime"))
    ELSE "Sofort"

\* the admin's own address, process.env.EMAIL_USER
EmailUser == "EMAIL_USER"

\* customerMailOptions of the booking handler: what the message shows
CustomerMailOptions(bookingData, bn, tok) ==
    [to |-> Get(bookingData, "email"), subject |-> bn, number |-> bn,
     type |-> Get(bookingData, "type"), dateTime |-> FormattedDateTime(bookingData),
     name |-> Get(bookingData, "name"), cancellationUrl |-> tok]

\* an admin notification that carries the cancellation link as well
AdminMailOptionsWithLink(bookingData, bn) ==
    [to |-> EmailUser, subject |-> bn, number |-> bn,
     type |-> Get(bookingData, "type"), dateTime |-> FormattedDateTime(bookingData),
     name |-> Get(bookingData, "name"), email |-> Get(bookingData, "email"),
     cancellationUrl |-> GenerateCancellationToken]

\* adminMailOptions of the booking handler
AdminMailOptions(bookingData, bn) ==
    [to |-> EmailUser, subject |-> bn, number |-> bn,
     type |-> Get(bookingData, "type"), dateTime |-> FormattedDateTime(bookingData),
     name |-> Get(bookingData, "name"), email |-> Get(bookingData, "email")]

\* customerCancelMailOptions of the cancellation handler
CustomerCancelMailOptions(b) ==
    [to |-> Get(b, "email"), subject |-> b.bookingNumber, number |-> b.bookingNumber,
     name |-> Get(b, "name")]

\* adminCancelMailOptions of the cancellation handler
AdminCancelMailOptions(b) ==
    [to |-> EmailUser, subject |-> b.bookingNumber, number |-> b.bookingNumber,
     name |-> Get(b, "name"), email |-> Get(b, "email")]

\* transporter.sendMail(options): a promise that is pending at first
SendMail(options) == [state |-> "pending", msg |-> options]

\* ------------------------------------------------------------- responses
HealthResponse == [status |-> 200, body |-> "Server is running"]

BookOk(bn) == [status |-> 200, success |-> TRUE,
               message |-> "Buchung erfolgreich!", bookingNumber |-> bn]

BookError == [status |-> 500, success |-> FALSE, error |-> "Fehler beim Buchen."]

CancelNotFound == [status |-> 404,
                   body |-> "Buchung nicht gefunden oder bereits storniert."]

CancelOk(bn) == [status |-> 200, body |-> "Buchung erfolgreich storniert",
                 bookingNumber |-> bn]

CancelError == [status |-> 500, body |-> "Buchung konnte nicht storniert werden."]

\* ---------------------------------------------------------- Promise.all
\* a Promise.all that is fulfilled as soon as one promise is
PromiseAllFirstSuccess(cust, admin) ==
    IF cust.state = "ok" \/ admin.state = "ok" THEN "fulfilled"
    ELSE IF cust.state = "fail" \/ admin.state = "fail" THEN "rejected"
    ELSE "pending"

\* the state of Promise.all([customer, admin]) for the two sendMail promises:
\* rejected as soon as one is rejected, fulfilled when both are fulfilled
PromiseAll(cust, admin) ==
    IF cust.state = "fail" \/ admin.state = "fail" THEN "rejected"
    ELSE IF cust.state = "ok" /\ admin.state = "ok" THEN "fulfilled"
    ELSE "pending"

\* ------------------------------------------------ the handlers' second half
\* a success response that leaves the booking number out
BookSuccessOmitsNumber(r) ==
    /\ pc' = [pc EXCEPT ![r] = "done"]
    /\ res' = [res EXCEPT ![r] = Append(@, [status |-> 200, success |-> TRUE,
                                            message |-> "Buchung erfolgreich!"])]
    /\ UNCHANGED activeBookings

\* booking handler after the await, both sends succeeded: res.status(200).json
BookSuccess(r) ==
    /\ pc' = [pc EXCEPT ![r] = "done"]
    /\ res' = [res EXCEPT ![r] = Append(@, BookOk(bookingNumber[r]))]
    /\ UNCHANGED activeBookings

\* a catch block that rolls the stored record back
BookCatchRollsBack(r) ==
    /\ activeBookings' = [t \in (DOMAIN activeBookings) \ {token[r]} |->
                            activeBookings[t]]
    /\ pc' = [pc EXCEPT ![r] = "done"]
    /\ res' = [res EXCEPT ![r] = Append(@, BookError)]

\* booking handler, catch block: res.status(500).json
BookCatch(r) ==
    /\ pc' = [pc EXCEPT ![r] = "done"]
    /\ res' = [res EXCEPT ![r] = Append(@, BookError)]
    /\ UNCHANGED activeBookings

\* a cancellation that forgets activeBookings.delete(token)
CancelSuccessKeepsRecord(r) ==
    /\ pc' = [pc EXCEPT ![r] = "done"]
    /\ res' = [res EXCEPT ![r] = Append(@, CancelOk(booking[r].bookingNumber))]
    /\ UNCHANGED activeBookings

\* a cancellation that empties the whole Map
CancelSuccessClears(r) ==
    /\ activeBookings' = [t \in {} |-> NoRecord]
    /\ pc' = [pc EXCEPT ![r] = "done"]
    /\ res' = [res EXCEPT ![r] = Append(@, CancelOk(booking[r].bookingNumber))]

\* cancellation handler after the await, both sends succeeded:
\* activeBookings.delete(token), then the success page
CancelSuccess(r) ==
    /\ activeBookings' = [t \in (DOMAIN activeBookings) \ {token[r]} |->
                            activeBookings[t]]
    /\ pc' = [pc EXCEPT ![r] = "done"]
    /\ res' = [res EXCEPT ![r] = Append(@, CancelOk(booking[r].bookingNumber))]

\* a catch block that swallows the error and never responds
CancelCatchSilent(r) ==
    /\ pc' = [pc EXCEPT ![r] = "done"]
    /\ UNCHANGED <<res, activeBookings>>

\* a catch block that deletes the record although a send failed
CancelCatchDeletes(r) ==
    /\ activeBookings' = [t \in (DOMAIN activeBookings) \ {token[r]} |->
                            activeBookings[t]]
    /\ pc' = [pc EXCEPT ![r] = "done"]
    /\ res' = [res EXCEPT ![r] = Append(@, CancelError)]

\* cancellation handler, catch block: res.status(500).send
CancelCatch(r) ==
    /\ pc' = [pc EXCEPT ![r] = "done"]
    /\ res' = [res EXCEPT ![r] = Append(@, CancelError)]
    /\ UNCHANGED activeBookings

\* what runs when the sends of request r have reached the states cust, admin:
\* the rest of the handler if it is still awaiting and Promise.all has settled
Resume(r, cust, admin) ==
    IF pc[r] = "awaiting" /\ PromiseAll(cust, admin) = "fulfilled"
    THEN IF kind[r] = "book" THEN BookSuccess(r) ELSE CancelSuccess(r)
    ELSE IF pc[r] = "awaiting" /\ PromiseAll(cust, admin) = "rejected"
    THEN IF kind[r] = "book" THEN BookCatch(r) ELSE CancelCatch(r)
    ELSE UNCHANGED <<pc, res, activeBookings>>

\* ---------------------------------------------------------------- actions
\* GET /
Health(r) ==
    /\ Arrives(r)
    /\ kind' = [kind EXCEPT ![r] = "health"]
    /\ pc' = [pc EXCEPT ![r] = "done"]
    /\ res' = [res EXCEPT ![r] = Append(@, HealthResponse)]
    /\ UNCHANGED <<activeBookings, issued, token, bookingNumber, booking,
                   custSend, adminSend>>

\* a booking handler that sends first and has not stored the record yet
BookRideSendsFirst(r, bookingData, now, rnd) ==
    /\ Arrives(r)
    /\ issued < MaxTokens
    /\ LET bn == GenerateBookingNumber(now, rnd)
           tok == GenerateCancellationToken
       IN  /\ kind' = [kind EXCEPT ![r] = "book"]
           /\ issued' = tok
           /\ token' = [token EXCEPT ![r] = tok]
           /\ bookingNumber' = [bookingNumber EXCEPT ![r] = bn]
           /\ IF bookingData = NoBody
              THEN /\ pc' = [pc EXCEPT ![r] = "done"]
                   /\ res' = [res EXCEPT ![r] = Append(@, BookError)]
                   /\ UNCHANGED <<custSend, adminSend>>
              ELSE /\ pc' = [pc EXCEPT ![r] = "awaiting"]
                   /\ custSend' = [custSend EXCEPT ![r] =
                         SendMail(CustomerMailOptions(bookingData, bn, tok))]
                   /\ adminSend' = [adminSend EXCEPT ![r] =
                         SendMail(AdminMailOptions(bookingData, bn))]
                   /\ UNCHANGED res
    /\ UNCHANGED <<activeBookings, booking>>

\* POST /api/book-ride, from the arrival of the request to the await.
\* now is the clock reading of Date.now() and of new Date().
BookRide(r, bookingData, now, rnd) ==
    /\ Arrives(r)
    /\ issued < MaxTokens
    /\ LET bn == GenerateBookingNumber(now, rnd)
           tok == GenerateCancellationToken
           spread == IF bookingData = NoBody THEN [k \in {} |-> Undefined]
                     ELSE bookingData
           record == Spread(Spread([bookingNumber |-> bn], spread),
                            [timestamp |-> now])
       IN  /\ kind' = [kind EXCEPT ![r] = "book"]
           /\ issued' = tok
           /\ token' = [token EXCEPT ![r] = tok]
           /\ bookingNumber' = [bookingNumber EXCEPT ![r] = bn]
           /\ activeBookings' =
                 [t \in (DOMAIN activeBookings) \cup {tok} |->
                     IF t = tok THEN record ELSE activeBookings[t]]
           /\ IF bookingData = NoBody
              THEN \* bookingData.type throws a TypeError, caught at the end
                   /\ pc' = [pc EXCEPT ![r] = "done"]
                   /\ res' = [res EXCEPT ![r] = Append(@, BookError)]
                   /\ UNCHANGED <<custSend, adminSend>>
              ELSE /\ pc' = [pc EXCEPT ![r] = "awaiting"]
                   /\ custSend' = [custSend EXCEPT ![r] =
                         SendMail(CustomerMailOptions(bookingData, bn, tok))]
                   /\ adminSend' = [adminSend EXCEPT ![r] =
                         SendMail(AdminMailOptions(bookingData, bn))]
                   /\ UNCHANGED res
    /\ UNCHANGED booking

\* a cancellation handler without the activeBookings.has(token) check: for an
\* absent token booking is undefined and booking.email throws into the catch
CancelRideUnchecked(r, tok) ==
    /\ Arrives(r)
    /\ tok \in QueryTokens
    /\ kind' = [kind EXCEPT ![r] = "cancel"]
    /\ token' = [token EXCEPT ![r] = tok]
    /\ IF ~Has(tok)
       THEN /\ pc' = [pc EXCEPT ![r] = "done"]
            /\ res' = [res EXCEPT ![r] = Append(@, CancelError)]
            /\ UNCHANGED <<booking, custSend, adminSend>>
       ELSE /\ pc' = [pc EXCEPT ![r] = "awaiting"]
            /\ booking' = [booking EXCEPT ![r] = activeBookings[tok]]
            /\ custSend' = [custSend EXCEPT ![r] =
                  SendMail(CustomerCancelMailOptions(activeBookings[tok]))]
            /\ adminSend' = [adminSend EXCEPT ![r] =
                  SendMail(AdminCancelMailOptions(activeBookings[tok]))]
            /\ UNCHANGED res
    /\ UNCHANGED <<activeBookings, issued, bookingNumber>>

\* a cancellation handler that tells a used token from an unknown one
CancelRideTellsApart(r, tok) ==
    /\ Arrives(r)
    /\ tok \in QueryTokens
    /\ kind' = [kind EXCEPT ![r] = "cancel"]
    /\ token' = [token EXCEPT ![r] = tok]
    /\ IF ~Has(tok)
       THEN /\ pc' = [pc EXCEPT ![r] = "done"]
            /\ res' = [res EXCEPT ![r] = Append(@,
                  IF tok \in 1..issued
                  THEN [status |-> 404, body |-> "Buchung bereits storniert."]
                  ELSE CancelNotFound)]
            /\ UNCHANGED <<booking, custSend, adminSend>>
       ELSE /\ pc' = [pc EXCEPT ![r] = "awaiting"]
            /\ booking' = [booking EXCEPT ![r] = activeBookings[tok]]
            /\ custSend' = [custSend EXCEPT ![r] =
                  SendMail(CustomerCancelMailOptions(activeBookings[tok]))]
            /\ adminSend' = [adminSend EXCEPT ![r] =
                  SendMail(AdminCancelMailOptions(activeBookings[tok]))]
            /\ UNCHANGED res
    /\ UNCHANGED <<activeBookings, issued, bookingNumber>>

\* GET /api/cancel-ride?token=tok, from the arrival of the request to the await
CancelRide(r, tok) ==
    /\ Arrives(r)
    /\ tok \in QueryTokens
    /\ kind' = [kind EXCEPT ![r] = "cancel"]
    /\ token' = [token EXCEPT ![r] = tok]
    /\ IF ~Has(tok)
       THEN /\ pc' = [pc EXCEPT ![r] = "done"]
            /\ res' = [res EXCEPT ![r] = Append(@, CancelNotFound)]
            /\ UNCHANGED <<booking, custSend, adminSend>>
       ELSE /\ pc' = [pc EXCEPT ![r] = "awaiting"]
            /\ booking' = [booking EXCEPT ![r] = activeBookings[tok]]
            /\ custSend' = [custSend EXCEPT ![r] =
                  SendMail(CustomerCancelMailOptions(activeBookings[tok]))]
            /\ adminSend' = [adminSend EXCEPT ![r] =
                  SendMail(AdminCancelMailOptions(activeBookings[tok]))]
            /\ UNCHANGED res
    /\ UNCHANGED <<activeBookings, issued, bookingNumber>>

\* the mail transport settles the customer message of request r
CustomerSendSettles(r, outcome) ==
    /\ custSend[r].state = "pending"
    /\ custSend' = [custSend EXCEPT ![r].state = outcome]
    /\ Resume(r, [custSend[r] EXCEPT !.state = outcome], adminSend[r])
    /\ UNCHANGED <<issued, kind, token, bookingNumber, booking, adminSend>>

\* the mail transport settles the admin message of request r
AdminSendSettles(r, outcome) ==
    /\ adminSend[r].state = "pending"
    /\ adminSend' = [adminSend EXCEPT ![r].state = outcome]
    /\ Resume(r, custSend[r], [adminSend[r] EXCEPT !.state = outcome])
    /\ UNCHANGED <<issued, kind, token, bookingNumber, booking, custSend>>

Next ==
    \/ \E r \in Reqs : Health(r)
    \/ \E r \in Reqs, bookingData \in Bodies \cup {NoBody},
          now \in ClockVals, rnd \in RandVals :
             BookRide(r, bookingData, now, rnd)
    \/ \E r \in Reqs, tok \in Tokens \cup {NoToken, StrayToken} : CancelRide(r, tok)
    \/ \E r \in Reqs, outcome \in {"ok", "fail"} : CustomerSendSettles(r, outcome)
    \/ \E r \in Reqs, outcome \in {"ok", "fail"} : AdminSendSettles(r, outcome)

Spec == Init /\ [][Next]_vars

\* the mail transport settles every send sooner or later (it succeeds or fails)
Fairness ==
    \A r \in Reqs :
        /\ WF_vars(\E outcome \in {"ok", "fail"} : CustomerSendSettles(r, outcome))
        /\ WF_vars(\E outcome \in {"ok", "fail"} : AdminSendSettles(r, outcome))

FairSpec == Spec /\ Fairness

\* ------------------------------------------- the identifier generator alone
\* Date.now() readings for the generator: one whose last six digits start
\* with zeros, one without, and one 1000 s after the first
GenClockVals == { <<"1","7","0","0","0","0","0","0","0","0","0","4","2">>,
                  <<"1","7","0","0","0","0","0","1","2","3","4","5","6">>,
                  <<"1","7","0","0","0","0","1","0","0","0","0","4","2">> }

\* draws of Math.floor(Math.random() * 1000) with one, two and three digits
GenRandVals == {0, 7, 42, 999}

\* the request body of the bookings that exercise the generator
GenBody == [type |-> "Geplante Fahrt", dateTime |-> "2025-03-01T10:00:00Z",
            name |-> "Ada", email |-> "ada@example.org"]

\* booking requests only, over the clock readings and random draws above
GenNext ==
    \E r \in Reqs, now \in GenClockVals, rnd \in GenRandVals :
        BookRide(r, GenBody, now, rnd)

GenSpec == Init /\ [][GenNext]_vars

\* ------------------------------------------------- the date display alone
\* values of bookingData.type: the label the handler tests for, the word
\* "scheduled", and the label of an immediate ride
FmtTypes == {"Geplante Fahrt", "scheduled", "Sofortfahrt"}

\* values of bookingData.dateTime: a timestamp, the sentinel, a text no Date parses
FmtDateTimes == {"2025-03-01T10:00:00Z", "As soon as possible", "morgen"}

\* request bodies with and without a type and a dateTime
FmtBodies ==
    {[type |-> t, dateTime |-> d, name |-> "Ada", email |-> "ada@example.org"] :
        t \in FmtTypes, d \in FmtDateTimes}
    \cup {[type |-> t, name |-> "Ada", email |-> "ada@example.org"] : t \in FmtTypes}
    \cup {[dateTime |-> d, name |-> "Ada", email |-> "ada@example.org"] :
             d \in FmtDateTimes}
    \cup {[name |-> "Ada", email |-> "ada@example.org"]}

\* booking requests only, over the bodies above
FmtNext ==
    \E r \in Reqs, bookingData \in FmtBodies, now \in ClockVals, rnd \in RandVals :
        BookRide(r, bookingData, now, rnd)

FmtSpec == Init /\ [][FmtNext]_vars

\* ------------------------------------------------------------ vocabulary
\* request r has responded / has responded with status s
Responded(r) == res[r] # <<>>
RespondedWith(r, s) == res[r] # <<>> /\ res[r][1].status = s

\* a booking request has stored a record under t
Booked(t) == \E r \in Reqs : kind[r] = "book" /\ token[r] = t

\* a cancellation request for t has responded with success
Cancelled(t) == \E r \in Reqs : kind[r] = "cancel" /\ token[r] = t /\ RespondedWith(r, 200)

\* request r takes its first step as a cancellation request
CancelArrives(r) == kind[r] = "none" /\ kind'[r] = "cancel"

\* request r writes a response with status s in this step
Responds(r, s) == res[r] = <<>> /\ res'[r] # <<>> /\ res'[r][1].status = s

\* every send request r initiated has succeeded
SendsOk(r) == custSend[r].state = "ok" /\ adminSend[r].state = "ok"
SendFailed(r) == custSend[r].state = "fail" \/ adminSend[r].state = "fail"
SendPending(r) == custSend[r].state = "pending" \/ adminSend[r].state = "pending"

\* ------------------------------------------------------------------- C1
\* C1: of two cancellation requests for the same booked token that are in
\* flight together (both found the record, no send of either fails), exactly
\* one responds with success and the other with 404, and once both have
\* responded the store holds no record for the token.
C1_ExactlyOneSuccess ==
    \A r1 \in Reqs, r2 \in Reqs :
        ( /\ r1 < r2
          /\ kind[r1] = "cancel" /\ kind[r2] = "cancel"
          /\ token[r1] = token[r2]
          /\ booking[r1] # NoRecord /\ booking[r2] # NoRecord
          /\ ~SendFailed(r1) /\ ~SendFailed(r2)
          /\ Responded(r1) /\ Responded(r2) )
        => /\ \/ RespondedWith(r1, 200) /\ RespondedWith(r2, 404)
              \/ RespondedWith(r1, 404) /\ RespondedWith(r2, 200)
           /\ ~Has(token[r1])

\* ------------------------------------------------------------------- C2
\* C2: once a cancellation request for a booked token t has responded with
\* success, has(t) is false, and every cancellation request for t that
\* arrives afterwards responds 404 'not found'.
C2_RoundTrip ==
    [][\A t \in Tokens :
          /\ (Booked(t) /\ Cancelled(t))' => ~Has(t)'
          /\ \A r \in Reqs :
                (Booked(t) /\ Cancelled(t) /\ CancelArrives(r) /\ token'[r] = t)
                => res'[r] = <<CancelNotFound>>]_vars

\* a booking was cancelled with success and a later cancellation got 404
C2_Witness ==
    \E r1 \in Reqs, r2 \in Reqs :
        /\ r1 < r2 /\ Booked(token[r1])
        /\ kind[r1] = "cancel" /\ kind[r2] = "cancel" /\ token[r1] = token[r2]
        /\ RespondedWith(r1, 200) /\ RespondedWith(r2, 404)
        /\ ~Has(token[r1])

\* ------------------------------------------------------------------- C3
\* C3: a cancellation request whose token is not a key of the store responds
\* 404 in the step it arrives in, leaves the store unchanged and initiates no
\* send, each time it is made; such a request never has a send.
C3_NotFound ==
    [][\A r \in Reqs :
          /\ (CancelArrives(r) /\ ~Has(token'[r]))
             => /\ res'[r] = <<CancelNotFound>>
                /\ pc'[r] = "done"
                /\ activeBookings' = activeBookings
                /\ custSend'[r] = NoSend /\ adminSend'[r] = NoSend
          /\ (kind'[r] = "cancel" /\ booking'[r] = NoRecord)
             => /\ RespondedWith(r, 404)'
                /\ custSend'[r] = NoSend /\ adminSend'[r] = NoSend]_vars

\* the same token, never issued, was refused twice
C3_Witness ==
    \E r1 \in Reqs, r2 \in Reqs :
        /\ r1 < r2
        /\ kind[r1] = "cancel" /\ kind[r2] = "cancel" /\ token[r1] = token[r2]
        /\ ~Booked(token[r1])
        /\ RespondedWith(r1, 404) /\ RespondedWith(r2, 404)
        /\ custSend[r2] = NoSend /\ adminSend[r2] = NoSend

\* ------------------------------------------------------------------- C4
\* C4: when a cancellation request for t responds 500 (one of its sends
\* failed), the record for t is still in the store.
C4_RecordKeptOnFailure ==
    [][\A r \in Reqs :
          (kind[r] = "cancel" /\ Responds(r, 500)) => Has(token[r])']_vars

\* ------------------------------------------------------------------- C5
\* C5: a record leaves the store only in the step in which a cancellation
\* request for its own token resumes with both of its sends succeeded.
C5_DeleteAfterBothSends ==
    [][\A t \in DOMAIN activeBookings :
          t \notin DOMAIN activeBookings'
          => \E r \in Reqs :
                /\ kind[r] = "cancel" /\ token[r] = t
                /\ pc[r] = "awaiting" /\ pc'[r] = "done"
                /\ custSend'[r].state = "ok" /\ adminSend'[r].state = "ok"
                /\ Responds(r, 200)]_vars

\* a record was removed by a cancellation whose two sends succeeded
C5_Witness ==
    \E r \in Reqs :
        /\ kind[r] = "cancel" /\ RespondedWith(r, 200) /\ SendsOk(r)
        /\ Booked(token[r]) /\ ~Has(token[r])

\* ------------------------------------------------------------------- C6
\* C6 as stated: when a booking request responds 500, its record is in the
\* store under its token.
C6_RecordRemains ==
    [][\A r \in Reqs :
          (kind'[r] = "book" /\ Responds(r, 500))
          => token'[r] \in DOMAIN activeBookings']_vars

\* C6 as amended: a booking request that responded 500 has its record in the
\* store under its token unless a cancellation request for that token has
\* succeeded; the failing request itself removes nothing.
C6_NotRolledBack ==
    \A r \in Reqs :
        (kind[r] = "book" /\ RespondedWith(r, 500))
        => (Has(token[r]) \/ Cancelled(token[r]))

\* a booking failed on a send, its record stayed and was cancelled afterwards
C6_Witness ==
    \E r \in Reqs, c \in Reqs :
        /\ kind[r] = "book" /\ RespondedWith(r, 500) /\ SendFailed(r)
        /\ r < c /\ kind[c] = "cancel" /\ token[c] = token[r]
        /\ RespondedWith(c, 200)

\* ------------------------------------------------------------------- C7
\* C7 as stated: a booking request that has responded has no pending send.
C7_NoResponseWhilePending ==
    \A r \in Reqs : (kind[r] = "book" /\ Responded(r)) => ~SendPending(r)

\* C7 as amended: a booking request responds 200 only after both of its
\* sends have succeeded, and 500 only after one of its sends has failed or
\* before any send was initiated; the other send may still be pending then.
C7_ResponseAfterPromiseAll ==
    \A r \in Reqs :
        (kind[r] = "book" /\ Responded(r))
        => /\ RespondedWith(r, 200) => SendsOk(r)
           /\ RespondedWith(r, 500)
              => (SendFailed(r) \/ (custSend[r] = NoSend /\ adminSend[r] = NoSend))
           /\ RespondedWith(r, 200) \/ RespondedWith(r, 500)

\* a booking responded 500 on the first failure while the other send was pending
C7_Witness ==
    \E r \in Reqs :
        /\ kind[r] = "book" /\ RespondedWith(r, 500)
        /\ SendFailed(r) /\ SendPending(r)

\* ------------------------------------------------------------------- C8
\* C8: a booking request that has responded either responded 200 with
\* success = true and the generated booking number and both of its sends
\* succeeded, or responded 500 with success = false and no booking number
\* and not both of its sends succeeded.
C8_BookingResponse ==
    \A r \in Reqs :
        (kind[r] = "book" /\ Responded(r))
        => \/ /\ SendsOk(r)
              /\ res[r][1].status = 200 /\ res[r][1].success = TRUE
              /\ "bookingNumber" \in DOMAIN res[r][1]
              /\ res[r][1].bookingNumber = bookingNumber[r]
           \/ /\ ~SendsOk(r)
              /\ res[r][1].status = 500 /\ res[r][1].success = FALSE
              /\ "bookingNumber" \notin DOMAIN res[r][1]

\* one booking answered 200 with its number, another answered 500
C8_Witness ==
    \E r1 \in Reqs, r2 \in Reqs :
        /\ kind[r1] = "book" /\ RespondedWith(r1, 200) /\ SendsOk(r1)
        /\ res[r1][1].bookingNumber = GenerateBookingNumber(
              CHOOSE now \in ClockVals : TRUE, CHOOSE rnd \in RandVals : TRUE)
        /\ kind[r2] = "book" /\ RespondedWith(r2, 500) /\ SendFailed(r2)

\* ------------------------------------------------------------------- C9
\* C9: no request ever has more than one response, its status is 200, 404 or
\* 500, a request one of whose sends failed has responded, and (the sends
\* settling sooner or later) every request eventually responds: again and
\* again, every request received so far has exactly one response.  A request
\* once received stays received, so this says that each responds in the end.
C9_ExactlyOneResponse ==
    /\ [](\A r \in Reqs :
            /\ Len(res[r]) <= 1
            /\ Responded(r) => res[r][1].status \in {200, 404, 500}
            /\ SendFailed(r) => Responded(r))
    /\ []<>(\A r \in Reqs : kind[r] # "none" => Len(res[r]) = 1)

\* a cancellation and a booking both answered 500 after a failed send
C9_Witness ==
    \E r1 \in Reqs, r2 \in Reqs :
        /\ kind[r1] = "book" /\ SendFailed(r1) /\ RespondedWith(r1, 500)
        /\ kind[r2] = "cancel" /\ SendFailed(r2) /\ RespondedWith(r2, 500)

\* ------------------------------------------------------------------ C10
\* C10: the store holds a record under t exactly when a booking request has
\* created one under t and no cancellation request for t has responded with
\* success.
C10_StoreIffActive ==
    \A t \in Tokens : Has(t) <=> (Booked(t) /\ ~Cancelled(t))

\* one ride is active and in the store, another was cancelled and is not
C10_Witness ==
    \E t \in Tokens, u \in Tokens :
        /\ Has(t) /\ Booked(t)
        /\ Booked(u) /\ Cancelled(u) /\ ~Has(u)

\* ------------------------------------------------------------------ C11
\* what a client and the mail transport see of request r
Observation(r) == [res |-> res[r], customer |-> custSend[r], admin |-> adminSend[r]]

\* the observation of a refused cancellation: 404, the one text, no send
NotFoundObservation == [res |-> <<CancelNotFound>>, customer |-> NoSend, admin |-> NoSend]

\* cancellation request r found no record under its token when it arrived
Refused(r) == kind[r] = "cancel" /\ booking[r] = NoRecord /\ Responded(r)

\* C11: a cancellation request for an absent token is answered the same way
\* whether its token never existed or was booked and cancelled before: in
\* both cases status, body and side effects are the one not-found
\* observation, so any two refused requests are observed alike.
C11_Indistinguishable ==
    /\ \A r \in Reqs :
          /\ (Refused(r) /\ ~Booked(token[r])) => Observation(r) = NotFoundObservation
          /\ (Refused(r) /\ Booked(token[r])) => Observation(r) = NotFoundObservation
    /\ \A r1 \in Reqs, r2 \in Reqs :
          (Refused(r1) /\ Refused(r2)) => Observation(r1) = Observation(r2)

\* a token that was booked and cancelled with success was refused afterwards
C11_Witness ==
    \E r \in Reqs :
        /\ Refused(r) /\ Booked(token[r]) /\ Cancelled(token[r])
        /\ Observation(r) = NotFoundObservation

\* ------------------------------------------------------------------ C12
\* the properties under which a message, response or record would hold a token
TokenFields == {"cancellationUrl", "cancellationToken", "token"}

\* obj holds a token
CarriesToken(obj) == (DOMAIN obj) \cap TokenFields # {}

\* C12: the cancellation token of a booking is in the cancellation link of
\* its customer confirmation and is the key of its record; no admin
\* message, no response, no cancellation message and no stored record value
\* holds a token.
C12_TokenConfined ==
    /\ \A r \in Reqs :
          /\ (kind[r] = "book" /\ custSend[r] # NoSend)
             => /\ custSend[r].msg.cancellationUrl = token[r]
                /\ Booked(token[r])
          /\ (kind[r] = "cancel" /\ custSend[r] # NoSend) => ~CarriesToken(custSend[r].msg)
          /\ adminSend[r] # NoSend => ~CarriesToken(adminSend[r].msg)
          /\ \A i \in DOMAIN res[r] : ~CarriesToken(res[r][i])
    /\ \A t \in DOMAIN activeBookings : ~CarriesToken(activeBookings[t])

\* a booking answered 200: its link is in the delivered customer message only
C12_Witness ==
    \E r \in Reqs :
        /\ kind[r] = "book" /\ RespondedWith(r, 200) /\ Has(token[r])
        /\ custSend[r].msg.cancellationUrl = token[r]
        /\ ~CarriesToken(adminSend[r].msg) /\ ~CarriesToken(res[r][1])
        /\ ~CarriesToken(activeBookings[token[r]])

\* ------------------------------------------------------------------ C13
\* C13: no two booking requests of one run carry the same booking number.
C13_UniqueNumbers ==
    \A r1 \in Reqs, r2 \in Reqs :
        (r1 # r2 /\ kind[r1] = "book" /\ kind[r2] = "book")
        => bookingNumber[r1] # bookingNumber[r2]

\* ------------------------------------------------------------------ C20
Digits == {"0", "1", "2", "3", "4", "5", "6", "7", "8", "9"}

\* the three decimal digits of n in 0..999, leading zeros included
ThreeDigits(n) ==
    <<DigitChar(n \div 100), DigitChar((n \div 10) % 10), DigitChar(n % 10)>>

\* the last six characters of the decimal string of a clock reading
LastSix(now) == [i \in 1..6 |-> now[Len(now) - 6 + i]]

\* C20: the booking number of every booking request is 'TB' followed by
\* exactly nine decimal digits: the last six digits of the clock reading of
\* the request (kept as the record's timestamp) and then an integer of
\* 0..999 written with three digits.
C20_NumberFormat ==
    \A r \in Reqs :
        (kind[r] = "book" /\ Has(token[r]))
        => LET bn == bookingNumber[r]
               now == activeBookings[token[r]].timestamp
           IN  /\ Len(bn) = 11
               /\ bn[1] = "T" /\ bn[2] = "B"
               /\ \A i \in 3..11 : bn[i] \in Digits
               /\ SubSeq(bn, 3, 8) = LastSix(now)
               /\ \E n \in 0..999 : SubSeq(bn, 9, 11) = ThreeDigits(n)

\* the numbers of a one-digit draw at a reading whose last six digits begin
\* with zeros, and of a three-digit draw at another reading
C20_Witness ==
    \E r1 \in Reqs, r2 \in Reqs :
        /\ kind[r1] = "book"
        /\ bookingNumber[r1] = <<"T", "B", "0", "0", "0", "0", "4", "2", "0", "0", "7">>
        /\ kind[r2] = "book"
        /\ bookingNumber[r2] = <<"T", "B", "1", "2", "3", "4", "5", "6", "9", "9", "9">>

\* ------------------------------------------------------------------ C14
\* the type and dateTime booking request r received, as its record keeps them
BodyType(r) == Get(activeBookings[token[r]], "type")
BodyDateTime(r) == Get(activeBookings[token[r]], "dateTime")

\* booking request r has rendered and handed over its two messages
Rendered(r) == kind[r] = "book" /\ Has(token[r]) /\ custSend[r] # NoSend

\* C14: a booking whose dateTime is "As soon as possible" shows the
\* immediate-dispatch phrase 'Sofort' in both messages, whatever its type;
\* a message shows anything else only for the scheduled type ('Geplante
\* Fahrt') with a dateTime other than the sentinel.
C14_SentinelIsImmediate ==
    \A r \in Reqs :
        Rendered(r)
        => /\ BodyDateTime(r) = "As soon as possible"
              => /\ custSend[r].msg.dateTime = "Sofort"
                 /\ adminSend[r].msg.dateTime = "Sofort"
           /\ (custSend[r].msg.dateTime # "Sofort" \/ adminSend[r].msg.dateTime # "Sofort")
              => /\ BodyType(r) = "Geplante Fahrt"
                 /\ BodyDateTime(r) # "As soon as possible"

\* the sentinel was booked as a scheduled and as an immediate ride
C14_Witness ==
    \E r1 \in Reqs, r2 \in Reqs :
        /\ Rendered(r1) /\ BodyType(r1) = "Geplante Fahrt"
        /\ BodyDateTime(r1) = "As soon as possible"
        /\ custSend[r1].msg.dateTime = "Sofort" /\ adminSend[r1].msg.dateTime = "Sofort"
        /\ Rendered(r2) /\ BodyType(r2) = "Sofortfahrt"
        /\ BodyDateTime(r2) = "As soon as possible"
        /\ custSend[r2].msg.dateTime = "Sofort"

\* ------------------------------------------------------------------ C15
\* the date/time field is a formatted full date of 2025-03-01T10:00:00Z
FullDate(text) == text = "Saturday, March 1, 2025 at 10:00 AM"

\* C15 as stated: a booking with type "scheduled" and dateTime
\* "2025-03-01T10:00:00Z" shows the formatted full date in its customer
\* message, not the ISO string and not the immediate-dispatch phrase.
C15_ScheduledFormatted ==
    \A r \in Reqs :
        (Rendered(r) /\ BodyType(r) = "scheduled"
                     /\ BodyDateTime(r) = "2025-03-01T10:00:00Z")
        => /\ FullDate(custSend[r].msg.dateTime)
           /\ custSend[r].msg.dateTime \notin {"2025-03-01T10:00:00Z", "Sofort"}

\* C15 as amended: a booking with type 'Geplante Fahrt' and dateTime
\* "2025-03-01T10:00:00Z" shows the formatted full date in its customer
\* message, not the ISO string and not the immediate-dispatch phrase.
C15_GeplanteFormatted ==
    \A r \in Reqs :
        (Rendered(r) /\ BodyType(r) = "Geplante Fahrt"
                     /\ BodyDateTime(r) = "2025-03-01T10:00:00Z")
        => /\ FullDate(custSend[r].msg.dateTime)
           /\ custSend[r].msg.dateTime \notin {"2025-03-01T10:00:00Z", "Sofort"}

\* a 'Geplante Fahrt' for 2025-03-01T10:00:00Z was rendered with the full date
C15_Witness ==
    \E r \in Reqs :
        /\ Rendered(r) /\ BodyType(r) = "Geplante Fahrt"
        /\ BodyDateTime(r) = "2025-03-01T10:00:00Z"
        /\ FullDate(custSend[r].msg.dateTime)

\* ------------------------------------------------------------------ C16
\* C16: whenever the customer confirmation of a booking has been handed to
\* the mail transport, the booking's token is a key of the store or has
\* been cancelled with success; in the step that initiates the sends the
\* record is already stored.
C16_PersistedBeforeSend ==
    \A r \in Reqs :
        (kind[r] = "book" /\ custSend[r] # NoSend)
        => /\ custSend[r].msg.cancellationUrl = token[r]
           /\ Has(token[r]) \/ Cancelled(token[r])

\* a delivered confirmation whose booking request failed: the link still
\* leads to a stored record
C16_Witness ==
    \E r \in Reqs :
        /\ kind[r] = "book" /\ custSend[r].state = "ok" /\ RespondedWith(r, 500)
        /\ Has(token[r])

\* ------------------------------------------------------------------ C17
\* request r takes its first step, as a request of kind k
ArrivesAs(r, k) == kind[r] = "none" /\ kind'[r] = k

\* request r of kind k resumes after its await and ends
ResumesAs(r, k) == kind[r] = k /\ pc[r] = "awaiting" /\ pc'[r] = "done"

\* C17: a booking request mutates the store exactly once, when it arrives,
\* by a put that adds one new key, and never again; a cancellation request
\* mutates it at most once, when it resumes, by deleting its own key; no
\* other step mutates the store.  A request initiates sends only when it
\* arrives, at most its one customer and its one admin message, and never
\* a further one.
C17_SideEffects ==
    [][/\ \A r \in Reqs :
            /\ ArrivesAs(r, "book")
               => /\ token'[r] \notin DOMAIN activeBookings
                  /\ DOMAIN activeBookings' = (DOMAIN activeBookings) \cup {token'[r]}
            /\ ResumesAs(r, "book") => activeBookings' = activeBookings
            /\ ArrivesAs(r, "cancel") => activeBookings' = activeBookings
            /\ ResumesAs(r, "cancel")
               => \/ activeBookings' = activeBookings
                  \/ DOMAIN activeBookings' = (DOMAIN activeBookings) \ {token[r]}
            /\ (custSend[r] = NoSend /\ custSend'[r] # NoSend) => kind[r] = "none"
            /\ (adminSend[r] = NoSend /\ adminSend'[r] # NoSend) => kind[r] = "none"
            /\ custSend[r] # NoSend => custSend'[r].msg = custSend[r].msg
            /\ adminSend[r] # NoSend => adminSend'[r].msg = adminSend[r].msg
       /\ activeBookings' # activeBookings
          => \E r \in Reqs : ArrivesAs(r, "book") \/ ResumesAs(r, "cancel")]_vars

\* a booking put its record and failed, a cancellation deleted it: one
\* mutation and two sends each
C17_Witness ==
    \E b \in Reqs, c \in Reqs :
        /\ kind[b] = "book" /\ RespondedWith(b, 500)
        /\ custSend[b] # NoSend /\ adminSend[b] # NoSend
        /\ kind[c] = "cancel" /\ token[c] = token[b] /\ RespondedWith(c, 200)
        /\ custSend[c] # NoSend /\ adminSend[c] # NoSend
        /\ ~Has(token[b])

\* ------------------------------------------------------------------ C18
\* C18: no step changes a record that stays in the store; a booking request
\* keeps every record there was and adds its own under a key never used
\* before; a cancellation request for t keeps every record under another
\* token; the health check keeps the whole store.
C18_NoUpdate ==
    [][/\ \A t \in (DOMAIN activeBookings) \cap (DOMAIN activeBookings') :
            activeBookings'[t] = activeBookings[t]
       /\ \A t \in (DOMAIN activeBookings') \ (DOMAIN activeBookings) : ~Booked(t)
       /\ \A r \in Reqs :
            /\ ArrivesAs(r, "book")
               => (DOMAIN activeBookings) \subseteq (DOMAIN activeBookings')
            /\ (ArrivesAs(r, "cancel") \/ ResumesAs(r, "cancel"))
               => (DOMAIN activeBookings) \ {token'[r]} \subseteq (DOMAIN activeBookings')
            /\ ArrivesAs(r, "health") => activeBookings' = activeBookings]_vars

\* of two stored records one was cancelled and the other is still there
C18_Witness ==
    \E c \in Reqs, t \in Tokens :
        /\ kind[c] = "cancel" /\ RespondedWith(c, 200)
        /\ t # token[c] /\ Booked(t) /\ Has(t) /\ ~Has(token[c])

\* ------------------------------------------------------------------ C19
\* C19: the booking number in the stored record of a booking request is the
\* number generated for that request, whatever its body holds.
C19_StoredNumberIsGenerated ==
    \A r \in Reqs :
        (kind[r] = "book" /\ Has(token[r]))
        => activeBookings[token[r]].bookingNumber = bookingNumber[r]

====
